---- MODULE Spec2Model ----
(***************************************************************************)
(* Model of zendev's Repository (src/zendev/repo.py): one Repository       *)
(* instance working on one clone.  The working copy, its remote and the    *)
(* instance's memoized properties are the state; every public method is    *)
(* one action.  A method is an operator from an instance state s to a      *)
(* result [s, val, out, calls, failed]: the state it leaves, the value it   *)
(* returns, "ok" or the exception it raises, the state-changing tool       *)
(* commands and reports it issued, in order, and those of the commands     *)
(* that failed.  A method calling another is then the composition the code *)
(* writes.                                                                 *)
(***************************************************************************)
EXTENDS Integers, Sequences, FiniteSets, TLC

\* ------------------------------------------------------------- bounds
MaxCommits == 3
MaxCalls == 2

Features == {"x"}
DEVELOP == "develop"

VARIABLES
    git,    \* the clone on disk and its remote, see InitGit
    _repo,  \* Repository._repo: "None" or "GitFlow"
    memo,   \* the @memoize cache of this instance, one slot per property
    clone_ref, \* Repository.ref: what clone checks out
    ncalls  \* the number of methods called on the instance so far

vars == <<git, _repo, memo, clone_ref, ncalls>>

\* ------------------------------------------------------------- names
fname(name) == "feature/" \o name
ofname(name) == "origin/feature/" \o name
OriginName(b) == "origin/" \o b

HexDigits == <<"c1", "c2", "c3", "c4", "c5", "c6", "c7", "c8", "c9", "c10", "c11", "c12",
               "c13", "c14", "c15", "c16">>
hexsha(c) == HexDigits[c]

\* ------------------------------------------------------------- results
Ok(s, v) == [s |-> s, val |-> v, out |-> "ok", calls |-> <<>>, failed |-> {}]
Raise(s, e) == [s |-> s, val |-> "None", out |-> e, calls |-> <<>>, failed |-> {}]
Call(cmd, arg, n) == [cmd |-> cmd, arg |-> arg, to |-> "", n |-> n]
Issued(r, c) == [r EXCEPT !.calls = <<c>> \o r.calls]

\* r, then q (computed from r.s) when r did not raise: an exception propagates
Then(r, q) ==
    IF r.out # "ok" THEN r
    ELSE [q EXCEPT !.calls = r.calls \o q.calls, !.failed = r.failed \cup q.failed]

\* ------------------------------------------------------------- the clone
Max(S) == CHOOSE x \in S : \A y \in S : y <= x
Attached(g) == g.HEAD.ref # ""
HeadCommit(g) == IF Attached(g) THEN g.heads[g.HEAD.ref] ELSE g.HEAD.sha
Reach(g, c) == g.commits[c]
RemoteReach(g) == UNION {Reach(g, g.remotes[r]) : r \in DOMAIN g.remotes}
NewCommit(g, parents) ==
    Append(g.commits, UNION {Reach(g, p) : p \in parents} \cup {Len(g.commits) + 1})

\* a ref name or a commit id as the tool resolves it; 0 when it names nothing
RevParse(g, ref) ==
    IF ref \in DOMAIN g.heads THEN g.heads[ref]
    ELSE IF ref \in DOMAIN g.remotes THEN g.remotes[ref]
    ELSE IF \E c \in 1..Len(g.commits) : hexsha(c) = ref
         THEN CHOOSE c \in 1..Len(g.commits) : hexsha(c) = ref
    ELSE 0

\* git fetch --all: every branch of the remote is copied to its remote-tracking
\* ref; nothing is pruned, no local branch is created or moved
GitFetch(g) ==
    LET fetched == {OriginName(b) : b \in DOMAIN g.origin}
        Src(r) == CHOOSE b \in DOMAIN g.origin : OriginName(b) = r
    IN [g EXCEPT !.remotes =
            [r \in DOMAIN g.remotes \cup fetched |->
                IF r \in fetched THEN g.origin[Src(r)] ELSE g.remotes[r]]]

\* git push origin <b>: accepted when the remote has no such branch or the push
\* is a fast-forward; the remote-tracking ref follows an accepted push
PushAccepted(g, b) ==
    b \notin DOMAIN g.origin \/ g.origin[b] \in Reach(g, g.heads[b])
GitPush(g, b) ==
    [g EXCEPT !.origin = (b :> g.heads[b]) @@ g.origin,
              !.remotes = (OriginName(b) :> g.heads[b]) @@ g.remotes]

\* git checkout <ref>: a local branch, else a branch only the remote has (a
\* tracking branch is created), else a commit or remote ref (detached)
CanCheckout(g, ref) ==
    ref \in DOMAIN g.heads \/ RevParse(g, ref) # 0 \/ OriginName(ref) \in DOMAIN g.remotes
GitCheckout(g, ref) ==
    IF ref \in DOMAIN g.heads THEN [g EXCEPT !.HEAD = [ref |-> ref, sha |-> 0]]
    ELSE IF OriginName(ref) \in DOMAIN g.remotes
    THEN [g EXCEPT !.heads = (ref :> g.remotes[OriginName(ref)]) @@ g.heads,
                   !.tracking = (ref :> OriginName(ref)) @@ g.tracking,
                   !.HEAD = [ref |-> ref, sha |-> 0]]
    ELSE [g EXCEPT !.HEAD = [ref |-> "", sha |-> RevParse(g, ref)]]

\* git stash -u: nothing to save leaves the stash list alone
GitStash(g) ==
    IF g.status = {} THEN g
    ELSE [g EXCEPT !.stashes = <<g.status>> \o g.stashes, !.status = {}]

\* git stash apply: the newest entry is laid over the tree and stays listed
GitStashApply(g) == [g EXCEPT !.status = g.status \cup g.stashes[1]]

\* git rebase <onto> on the active branch: the commits the branch has and onto
\* has not are replayed, as new commits, on top of onto
Replayed(g, onto) == Reach(g, HeadCommit(g)) \ Reach(g, RevParse(g, onto))
RECURSIVE Replay(_, _, _)
Replay(g, tip, k) ==
    IF k = 0 THEN [g EXCEPT !.heads[g.HEAD.ref] = tip]
    ELSE Replay([g EXCEPT !.commits = NewCommit(g, {tip})], Len(g.commits) + 1, k - 1)
GitRebase(g, onto) == Replay(g, RevParse(g, onto), Cardinality(Replayed(g, onto)))
\* a rebase that stops on a conflict leaves HEAD detached on onto
GitRebaseStopped(g, onto) == [g EXCEPT !.HEAD = [ref |-> "", sha |-> RevParse(g, onto)]]
\* the tool refuses to rebase over changes to tracked files
TrackedChanges(g) == \E e \in g.status : e.xy[1] # "?"
\* gitflow's is_merged_into(commit, target_branch): commit is reachable from the
\* tip of target_branch
is_merged_into(g, commit, target_branch) ==
    RevParse(g, commit) \in Reach(g, g.heads[target_branch])

\* git rev-list <local> --not --remotes, one commit a line, newest first
RECURSIVE Lines(_)
Lines(S) == IF S = {} THEN <<>> ELSE <<hexsha(Max(S))>> \o Lines(S \ {Max(S)})
rev_list(g, local_name) == Lines(Reach(g, g.heads[local_name]) \ RemoteReach(g))
\* str.count('\n') of the lines joined by newlines
CountNewlines(lines) == IF lines = <<>> THEN 0 ELSE Len(lines) - 1

\* git status -z --porcelain, split at NUL: "XY path" for each entry, the path
\* a renamed entry came from as a chunk of its own after it, and the empty
\* chunk that follows the last NUL (alone when the tree is clean)
RECURSIVE Chunks(_)
Chunks(S) ==
    IF S = {} THEN <<>>
    ELSE LET e == CHOOSE x \in S : TRUE
         IN <<e.xy \o <<" ">> \o e.path>>
            \o (IF e.orig = <<>> THEN <<>> ELSE <<e.orig>>)
            \o Chunks(S \ {e})
status_z(g) == Chunks(g.status) \o << <<>> >>

\* ------------------------------------------------------------- the instance
\* utils.is_git_repo(path)
is_git_repo(g) == g.cloned

\* utils.memoize: the first value a property computes is kept for the life of
\* the instance; a computation that raises caches nothing
memoize(s, slot, r) ==
    IF s.memo[slot] # <<>> THEN Ok(s, s.memo[slot][1])
    ELSE IF r.out # "ok" THEN r
    ELSE [r EXCEPT !.s.memo[slot] = <<r.val>>]

initialize_attach_only(s) ==
    IF s._repo = "None" /\ is_git_repo(s.git) THEN [s EXCEPT !._repo = "GitFlow"] ELSE s

initialize(s) ==
    LET s1 == IF s._repo = "None" /\ is_git_repo(s.git)
              THEN [s EXCEPT !._repo = "GitFlow"] ELSE s
    IN IF s1._repo # "None" /\ ~s1.git.flow
       THEN [s1 EXCEPT !.git.flow = TRUE] ELSE s1

repo(s) == memoize(s, "repo", Ok(initialize(s), initialize(s)._repo))

\* self.repo.<attr>: None has no attributes
Handle(s) ==
    LET r == repo(s) IN IF r.val = "None" THEN Raise(r.s, "AttributeError") ELSE r

\* a tool command run on the handle: done, or failed with GitCommandError
Done(s, g, c) == Issued(Ok([s EXCEPT !.git = g], "None"), c)
Failed(s, g, e, c) == [Issued(Raise([s EXCEPT !.git = g], e), c) EXCEPT !.failed = {c}]

branch_attached_only(s) ==
    LET r == Handle(s)
        g == r.s.git
    IN memoize(s, "branch",
         Then(r, IF Attached(g) THEN Ok(r.s, g.HEAD.ref) ELSE Raise(r.s, "TypeError")))

branch_refreshed(s) ==
    LET r == Handle(s)
        g == r.s.git
    IN Then(r, [Ok(r.s, IF Attached(g) THEN g.HEAD.ref ELSE hexsha(g.HEAD.sha))
                   EXCEPT !.s.memo.branch =
                       <<IF Attached(g) THEN g.HEAD.ref ELSE hexsha(g.HEAD.sha)>>])

branch(s) ==
    LET r == Handle(s)
        g == r.s.git
    IN memoize(s, "branch",
         Then(r, Ok(r.s, IF Attached(g) THEN g.HEAD.ref ELSE hexsha(g.HEAD.sha))))

hash(s) ==
    LET r == Handle(s)
        g == r.s.git
    IN memoize(s, "hash",
         Then(r, Ok(r.s, IF Attached(g) THEN hexsha(g.heads[g.HEAD.ref])
                         ELSE hexsha(g.HEAD.sha))))

remote_branch(s) ==
    LET r == Handle(s)
        g == r.s.git
    IN memoize(s, "remote_branch",
         Then(r, IF ~Attached(g) THEN Raise(r.s, "TypeError")
                 ELSE IF g.tracking[g.HEAD.ref] # "" THEN Ok(r.s, g.tracking[g.HEAD.ref])
                 ELSE Ok(r.s, "None")))

remote_branches(s) ==
    LET r == Handle(s)
    IN memoize(s, "remote_branches", Then(r, Ok(r.s, DOMAIN r.s.git.remotes)))

local_branches(s) ==
    LET r == Handle(s)
    IN memoize(s, "local_branches", Then(r, Ok(r.s, DOMAIN r.s.git.heads)))

\* the loop of Repository.changes over the first two characters of each chunk
StartsWith(x, ch) == Len(x) >= 1 /\ x[1] = ch
Prefix2(x) == SubSeq(x, 1, IF Len(x) < 2 THEN Len(x) ELSE 2)
classify(lines) ==
    LET char(i) == Prefix2(lines[i])
        I == 1..Len(lines)
        untracked == \E i \in I : StartsWith(char(i), "?")
        unstaged == \E i \in I : ~StartsWith(char(i), "?") /\ StartsWith(char(i), " ")
        staged == \E i \in I : /\ ~StartsWith(char(i), "?")
                                /\ ~StartsWith(char(i), " ")
                                /\ char(i) # <<>>
    IN <<staged, unstaged, untracked>>

changes(s) ==
    LET r == Handle(s)
    IN memoize(s, "changes", Then(r, Ok(r.s, classify(status_z(r.s.git)))))

\* ------------------------------------------------------------- methods
checkout(s, ref) ==
    LET b == branch(s)
        r == Handle(b.s)
        g == r.s.git
    IN Then(b, IF ref # b.val
               THEN Then(r, IF CanCheckout(g, ref)
                            THEN Done(r.s, GitCheckout(g, ref), Call("checkout", ref, 0))
                            ELSE Failed(r.s, g, "GitCommandError", Call("checkout", ref, 0)))
               ELSE Ok(b.s, "None"))

\* GitFlow.create('feature', name, None, None): the branch must be new; it
\* starts at the tip of develop and is checked out
GitFlowCreate(s, name) ==
    LET g == s.git
        c == Call("create", fname(name), 0)
    IN IF fname(name) \in DOMAIN g.heads THEN Failed(s, g, "BranchExistsError", c)
       ELSE Done(s, [g EXCEPT !.heads = (fname(name) :> g.heads[DEVELOP]) @@ g.heads,
                              !.tracking = (fname(name) :> "") @@ g.tracking,
                              !.HEAD = [ref |-> fname(name), sha |-> 0]], c)

\* GitFlow.publish('feature', name): the branch must be local and unknown on the
\* remote; it is pushed, the remote fetched, and tracking configured
GitFlowPublish(s, name) ==
    LET g == s.git
        c == Call("publish", fname(name), 0)
    IN IF fname(name) \notin DOMAIN g.heads THEN Failed(s, g, "NoSuchBranchError", c)
       ELSE IF ofname(name) \in DOMAIN g.remotes THEN Failed(s, g, "BranchExistsError", c)
       ELSE IF ~PushAccepted(g, fname(name)) THEN Failed(s, g, "GitCommandError", c)
       ELSE Done(s, [GitFetch(GitPush(g, fname(name)))
                        EXCEPT !.tracking[fname(name)] = ofname(name)], c)

\* GitFlow.finish('feature', name, fetch=True, rebase=False, keep=False,
\* force_delete=True, tagging_info=None): the branch must be local; the remote
\* is fetched, the branch merged into develop (fast-forward for a single
\* commit, a merge commit otherwise), develop checked out and the local branch
\* deleted; the remote branch and its remote-tracking ref stay.  finishes:
\* whether the tool's own checks and the merge go through
Without(f, b) == [x \in DOMAIN f \ {b} |-> f[x]]
GitFlowFinish(s, name, finishes) ==
    LET g == GitFetch(s.git)
        c == Call("finish", fname(name), 0)
        feature == g.heads[fname(name)]
        develop == g.heads[DEVELOP]
        new == Reach(g, feature) \ Reach(g, develop)
        merged == IF new = {} THEN g
                  ELSE IF develop \in Reach(g, feature) /\ Cardinality(new) = 1
                  THEN [g EXCEPT !.heads[DEVELOP] = feature]
                  ELSE [g EXCEPT !.commits = NewCommit(g, {develop, feature}),
                                 !.heads[DEVELOP] = Len(g.commits) + 1]
    IN IF fname(name) \notin DOMAIN s.git.heads
       THEN Failed(s, s.git, "NoSuchBranchError", c)
       ELSE IF ~finishes THEN Failed(s, g, "GitCommandError", c)
       ELSE Done(s, [merged EXCEPT !.heads = Without(merged.heads, fname(name)),
                                   !.tracking = Without(merged.tracking, fname(name)),
                                   !.HEAD = [ref |-> DEVELOP, sha |-> 0]], c)

\* self.repo.origin().push(":" + feature_name): the branch is deleted on the
\* remote and with it the remote-tracking ref; the remote refuses to delete a
\* branch it does not have, and the binding raises then or not (raises)
GitPushDelete(s, b, raises) ==
    LET g == s.git
        c == Call("push", ":" \o b, 0)
    IN IF b \in DOMAIN g.origin
       THEN Done(s, [g EXCEPT !.origin = Without(g.origin, b),
                              !.remotes = Without(g.remotes, OriginName(b))], c)
       ELSE IF raises THEN Failed(s, g, "GitCommandError", c)
       ELSE Done(s, g, c)

start_feature(s, name) ==
    LET r == Handle(s) IN Then(r, GitFlowCreate(r.s, name))

publish_feature(s, name) ==
    LET r == Handle(s) IN Then(r, GitFlowPublish(r.s, name))

finish_feature(s, name, finishes, raises) ==
    LET l == local_branches(s)
        h == Handle(l.s)
        fin == IF fname(name) \in l.val
               THEN Then(h, GitFlowFinish(h.s, name, finishes))
               ELSE Ok(l.s, "None")
        rm == remote_branches(fin.s)
        h2 == Handle(rm.s)
    IN Then(l, Then(fin, Then(rm,
         IF ofname(name) \in rm.val
         THEN Then(h2, GitPushDelete(h2.s, fname(name), raises))
         ELSE Ok(rm.s, "None"))))

stash(s) ==
    LET r == Handle(s)
    IN Then(r, Done(r.s, GitStash(r.s.git), Call("stash", "-u", 0)))

\* applies: whether the tool can lay the entry over the tree without conflict
apply_stash(s, applies) ==
    LET r == Handle(s)
        g == r.s.git
        c == Call("stash", "apply", 0)
    IN Then(r, IF g.stashes = <<>> \/ ~applies THEN Failed(r.s, g, "GitCommandError", c)
               ELSE Done(r.s, GitStashApply(g), c))

fetch(s) ==
    LET r == Handle(s)
    IN Then(r, Done(r.s, GitFetch(r.s.git), Call("fetch", "--all", 0)))

message(s, about, n) == Issued(Ok(s, "None"), Call("message", about, n))

\* self.repo.git.rebase(remote_name); replays: whether the replayed commits
\* apply without conflict
rebase(s, remote_name, replays) ==
    LET r == Handle(s)
        g == r.s.git
        c == Call("rebase", remote_name, 0)
    IN Then(r, IF TrackedChanges(g) THEN Failed(r.s, g, "GitCommandError", c)
               ELSE IF Replayed(g, remote_name) = {} \/ replays
               THEN Done(r.s, GitRebase(g, remote_name), c)
               ELSE Failed(r.s, GitRebaseStopped(g, remote_name), "GitCommandError", c))

any(t) == \E i \in 1..Len(t) : t[i]

\* remote_name = tracking.name if tracking else local_name
remote_name(g) ==
    IF g.tracking[g.HEAD.ref] # "" THEN g.tracking[g.HEAD.ref] ELSE g.HEAD.ref

nothing_to_do_reversed(g) ==
    RevParse(g, g.HEAD.ref) \in Reach(g, RevParse(g, remote_name(g)))
\* if self.repo.is_merged_into(remote_name, local_name)
nothing_to_do(g) == is_merged_into(g, remote_name(g), g.HEAD.ref)

merge_from_remote_uncaught(s, replays, applies) ==
    LET r == Handle(s)
        g == r.s.git
        m == message(r.s, "Rebasing", 0)
        ch == changes(m.s)
        weStashed == any(ch.val)
        st == IF weStashed THEN stash(ch.s) ELSE Ok(ch.s, "None")
        rb == rebase(st.s, remote_name(g), replays)
        ap == IF weStashed THEN apply_stash(rb.s, applies) ELSE Ok(rb.s, "None")
    IN Then(r, IF ~Attached(g) THEN Ok(r.s, "None")
               ELSE IF RevParse(g, remote_name(g)) = 0 THEN Raise(r.s, "BadObjectError")
               ELSE IF nothing_to_do(g) THEN Ok(r.s, "None")
               ELSE Then(m, Then(ch, Then(st, Then(rb, ap)))))

merge_from_remote_reapplies(s, replays, applies) ==
    LET r == Handle(s)
        g == r.s.git
        m == message(r.s, "Rebasing", 0)
        ch == changes(m.s)
        weStashed == any(ch.val)
        st == IF weStashed THEN stash(ch.s) ELSE Ok(ch.s, "None")
        rb == rebase(st.s, remote_name(g), replays)
        ap == IF weStashed THEN apply_stash(rb.s, applies) ELSE Ok(rb.s, "None")
        caught == IF ap.out = "GitCommandError" THEN [ap EXCEPT !.out = "ok"] ELSE ap
        finally == IF rb.out = "ok" THEN Then(rb, caught)
                   ELSE [rb EXCEPT !.s = ap.s, !.calls = rb.calls \o ap.calls]
    IN Then(r, IF ~Attached(g) THEN Ok(r.s, "None")
               ELSE IF RevParse(g, remote_name(g)) = 0 THEN Raise(r.s, "BadObjectError")
               ELSE IF nothing_to_do(g) THEN Ok(r.s, "None")
               ELSE Then(m, Then(ch, Then(st, finally))))

merge_from_remote(s, replays, applies) ==
    LET r == Handle(s)
        g == r.s.git
        m == message(r.s, "Rebasing", 0)
        ch == changes(m.s)
        weStashed == any(ch.val)
        st == IF weStashed THEN stash(ch.s) ELSE Ok(ch.s, "None")
        rb == rebase(st.s, remote_name(g), replays)
        ap == IF weStashed THEN apply_stash(rb.s, applies) ELSE Ok(rb.s, "None")
        caught == IF ap.out = "GitCommandError" THEN [ap EXCEPT !.out = "ok"] ELSE ap
    IN Then(r, IF ~Attached(g) THEN Ok(r.s, "None")
               ELSE IF RevParse(g, remote_name(g)) = 0 THEN Raise(r.s, "BadObjectError")
               ELSE IF nothing_to_do(g) THEN Ok(r.s, "None")
               ELSE Then(m, Then(ch, Then(st, Then(rb, caught)))))

reported_newlines(output) == CountNewlines(output)
\* output.count('\n')+1
reported(output) == CountNewlines(output) + 1

push_unsent(s) ==
    LET r == Handle(s)
        g == r.s.git
        output == rev_list(g, g.HEAD.ref)
    IN Then(r, IF ~Attached(g) THEN Ok(r.s, "None")
               ELSE IF output # <<>> THEN message(r.s, "Pushing", reported(output))
               ELSE Ok(r.s, "None"))

push(s) ==
    LET r == Handle(s)
        g == r.s.git
        local_name == g.HEAD.ref
        output == rev_list(g, local_name)
        m == message(r.s, "Pushing", reported(output))
        c == Call("push", local_name, 0)
    IN Then(r, IF ~Attached(g) THEN Ok(r.s, "None")
               ELSE IF output # <<>>
               THEN Then(m, IF PushAccepted(g, local_name)
                            THEN Done(m.s, GitPush(g, local_name), c)
                            ELSE Failed(m.s, g, "GitCommandError", c))
               ELSE Ok(r.s, "None"))

create_feature(s, name) ==
    LET l == local_branches(s)
        rm == remote_branches(l.s)
        local == fname(name) \in l.val
        remote == ofname(name) \in rm.val
        st == start_feature(rm.s, name)
    IN Then(l, Then(rm,
         IF local /\ remote THEN Ok(rm.s, "None")
         ELSE IF ~local /\ remote THEN fetch(rm.s)
         ELSE IF local /\ ~remote THEN publish_feature(rm.s, name)
         ELSE Then(st, publish_feature(st.s, name))))

\* created: whether the hosting API answers with the new pull request
create_pull_request(s, feature_name, base, created) ==
    LET ch == changes(s)
        unstaged == ch.val[2]
        p == push(ch.s)
        sleep == Issued(Ok(p.s, "None"), Call("sleep", "", 1))
        m == message(p.s, "Posting pull request", 0)
        post == Issued(Ok(m.s, "None"),
                       [Call("POST", fname(feature_name), 0) EXCEPT !.to = base])
        report == Issued(Ok(m.s, "None"),
                         IF created THEN Call("info", "Pull Request", 0)
                         ELSE Call("error", "Validation Failed", 0))
    IN Then(ch, IF unstaged
                THEN Issued(Ok(ch.s, "None"), Call("error", "uncommited changes", 0))
                ELSE Then(p, Then(sleep, Then(m, Then(post, report)))))

\* ------------------------------------------------------------- clone
NoBranches == [b \in {} |-> 0]

\* git clone --branch <b>: possible for a branch of the remote, not for a commit
\* id or an unknown name
CanCloneAt(g, b) == b \in DOMAIN g.origin
\* the new clone: every branch of the remote as a remote-tracking ref, b as the
\* only local branch, tracking origin/b and checked out; a clean tree, no
\* git-flow set-up
GitClone(g, b) ==
    [GitFetch([g EXCEPT !.remotes = NoBranches])
        EXCEPT !.exists = TRUE, !.cloned = TRUE, !.flow = FALSE,
               !.heads = (b :> g.origin[b]),
               !.tracking = (b :> OriginName(b)),
               !.HEAD = [ref |-> b, sha |-> 0],
               !.status = {}, !.stashes = <<>>]

\* the else branch of Repository.clone.  reachable: whether the remote answers.
\* A clone that fails leaves nothing at the path.  Without a branch the tool
\* checks out the default branch of the remote, develop here.
clone_into(s, shallow, reachable) ==
    LET made == [s EXCEPT !.git.parent = TRUE]
        g == made.git
        branch_kw == IF s.ref # "" THEN s.ref ELSE DEVELOP
        c1 == Call("clone", s.ref, IF shallow THEN 1 ELSE 0)
        c2 == Call("clone", "", 0)
        first == IF reachable /\ CanCloneAt(g, branch_kw)
                 THEN Done(made, GitClone(g, branch_kw), c1)
                 ELSE Failed(made, g, "GitCommandError", c1)
        second == IF reachable THEN Done(made, GitClone(g, DEVELOP), c2)
                  ELSE Failed(made, g, "GitCommandError", c2)
        g2 == second.s.git
        co == IF CanCheckout(g2, s.ref)
              THEN Done(second.s, GitCheckout(g2, s.ref), Call("checkout", s.ref, 0))
              ELSE Failed(second.s, g2, "GitCommandError", Call("checkout", s.ref, 0))
        gitrepo == IF first.out = "GitCommandError"
                   THEN [Issued(Then(second, co), c1) EXCEPT !.failed = @ \cup first.failed]
                   ELSE first
        attached == [gitrepo.s EXCEPT !._repo = "GitFlow"]
    IN IF gitrepo.out # "ok" THEN gitrepo
       ELSE [gitrepo EXCEPT !.s = IF shallow THEN attached ELSE initialize(attached)]

clone_unchecked(s, shallow, reachable) == clone_into(s, shallow, reachable)

clone(s, shallow, reachable) ==
    IF s.git.exists THEN Raise(s, "Exception")
    ELSE clone_into(s, shallow, reachable)

shallow_clone(s, reachable) == clone(s, TRUE, reachable)

\* ------------------------------------------------------------- the machine
Self == [git |-> git, _repo |-> _repo, memo |-> memo, ref |-> clone_ref]

\* the status entries the working copy can hold here: an unstaged modification
\* of a tracked file and an untracked file
Entry(xy, path) == [xy |-> xy, path |-> <<path>>, orig |-> <<>>]
Edits == {Entry(<<" ", "M">>, "a"), Entry(<<"?", "?">>, "c")}

Slots == {"repo", "branch", "hash", "remote_branch", "remote_branches",
          "local_branches", "changes"}

\* a clone of the remote with a local branch checked out and, for the feature,
\* any of absent, localOnly, remoteOnly, both
InitGit(local, remote, head) ==
    [exists |-> TRUE,
     parent |-> TRUE,
     cloned |-> TRUE,
     flow |-> FALSE,
     commits |-> << {1} >>,
     heads |-> IF local THEN (fname("x") :> 1) @@ (DEVELOP :> 1) ELSE (DEVELOP :> 1),
     tracking |-> IF local
                  THEN (fname("x") :> IF remote THEN ofname("x") ELSE "")
                       @@ (DEVELOP :> OriginName(DEVELOP))
                  ELSE (DEVELOP :> OriginName(DEVELOP)),
     remotes |-> IF remote THEN (ofname("x") :> 1) @@ (OriginName(DEVELOP) :> 1)
                 ELSE (OriginName(DEVELOP) :> 1),
     origin |-> IF remote THEN (fname("x") :> 1) @@ (DEVELOP :> 1) ELSE (DEVELOP :> 1),
     HEAD |-> [ref |-> head, sha |-> 0],
     status |-> {},
     stashes |-> <<>>]

Init ==
    /\ \E local \in BOOLEAN, remote \in BOOLEAN :
          \E head \in {DEVELOP} \cup (IF local THEN {fname("x")} ELSE {}) :
              git = InitGit(local, remote, head)
    /\ _repo = "None"
    /\ memo = [k \in Slots |-> <<>>]
    /\ clone_ref = DEVELOP
    /\ ncalls = 0

\* a method call that ends as r
Returns(r) ==
    /\ ncalls < MaxCalls
    /\ git' = r.s.git
    /\ _repo' = r.s._repo
    /\ memo' = r.s.memo
    /\ clone_ref' = r.s.ref
    /\ ncalls' = ncalls + 1

Refs == DOMAIN git.heads \cup {fname(n) : n \in Features}
            \cup {hexsha(c) : c \in 1..Len(git.commits)}

Branch == Returns(branch(Self))
Hash == Returns(hash(Self))
RemoteBranch == Returns(remote_branch(Self))
LocalBranches == Returns(local_branches(Self))
RemoteBranches == Returns(remote_branches(Self))
Changes == Returns(changes(Self))
Checkout == \E ref \in Refs : Returns(checkout(Self, ref))
StartFeature == \E n \in Features : Returns(start_feature(Self, n))
PublishFeature == \E n \in Features : Returns(publish_feature(Self, n))
FinishFeature ==
    \E n \in Features, finishes \in BOOLEAN, raises \in BOOLEAN :
        Returns(finish_feature(Self, n, finishes, raises))
Stash == Returns(stash(Self))
ApplyStash == \E applies \in BOOLEAN : Returns(apply_stash(Self, applies))
Fetch == Returns(fetch(Self))
MergeFromRemote ==
    \E replays \in BOOLEAN, applies \in BOOLEAN :
        Returns(merge_from_remote(Self, replays, applies))
Push == Returns(push(Self))
CreateFeature == \E n \in Features : Returns(create_feature(Self, n))
CreatePullRequest ==
    \E n \in Features, created \in BOOLEAN :
        Returns(create_pull_request(Self, n, DEVELOP, created))

\* what happened to the clone and its remote before the instance is first
\* used: the user committed on HEAD, somebody else pushed commits to a branch
\* of the remote.  The two histories do not meet before a fetch or a push, so
\* they are told in one order: the commits pushed to develop, those pushed to
\* the other branches, then the user's.
Before(g) ==
    /\ ncalls = 0
    /\ Len(g.commits) <= MaxCommits
    /\ git' = g
    /\ UNCHANGED <<_repo, memo, clone_ref, ncalls>>

UserCommit ==
    /\ git.cloned
    /\ Before(LET g == [git EXCEPT !.commits = NewCommit(git, {HeadCommit(git)})]
           IN IF Attached(git) THEN [g EXCEPT !.heads[git.HEAD.ref] = Len(g.commits)]
              ELSE [g EXCEPT !.HEAD.sha = Len(g.commits)])

\* the user touches a file of the working copy, at any time
UserEdit ==
    \E e \in Edits :
        /\ git.cloned
        /\ e \notin git.status
        /\ git' = [git EXCEPT !.status = @ \cup {e}]
        /\ UNCHANGED <<_repo, memo, clone_ref, ncalls>>

Pushed(g) == UNION {Reach(g, g.origin[b]) : b \in DOMAIN g.origin}
UpstreamCommit ==
    \E b \in DOMAIN git.origin :
        /\ 1..Len(git.commits) \subseteq Pushed(git)
        /\ b = DEVELOP => \A o \in DOMAIN git.origin :
                              git.origin[o] \in Reach(git, git.origin[DEVELOP])
        /\ Before([git EXCEPT !.commits = NewCommit(git, {git.origin[b]}),
                              !.origin[b] = Len(git.commits) + 1])

\* a call of a method on a working copy
Method ==
    \/ Branch \/ Hash \/ RemoteBranch \/ LocalBranches \/ RemoteBranches \/ Changes
    \/ Checkout \/ StartFeature \/ PublishFeature \/ FinishFeature \/ Stash \/ ApplyStash
    \/ Fetch \/ MergeFromRemote \/ Push \/ CreateFeature \/ CreatePullRequest

Next == Method \/ UserCommit \/ UserEdit \/ UpstreamCommit

Spec == Init /\ [][Next]_vars

\* ------------------------------------------------------------- properties
\* Each property is stated over every reachable state of the clone and the
\* instance: what a method called in that state does is the method's operator
\* applied to Self.

IsLocal(g, n) == fname(n) \in DOMAIN g.heads
IsRemote(g, n) == ofname(n) \in DOMAIN g.remotes
FeatureState(g, n) ==
    IF IsLocal(g, n) THEN (IF IsRemote(g, n) THEN "both" ELSE "localOnly")
    ELSE (IF IsRemote(g, n) THEN "remoteOnly" ELSE "absent")
\* the clone is as it was, but for the git-flow set-up of lazy initialization
SameClone(a, b) == [a EXCEPT !.flow = TRUE] = [b EXCEPT !.flow = TRUE]
Cmds(r) == {r.calls[i].cmd : i \in 1..Len(r.calls)}
\* the commits of the active branch that no remote-tracking ref reaches
Ahead(g) == Reach(g, g.heads[g.HEAD.ref]) \ RemoteReach(g)

\* C1: create_feature(name) called twice in succession on one instance: the
\* second call is a no-op, it issues no fetch, no start_feature and no
\* publish_feature and leaves the clone as the first call left it.
C1_SecondCreateIsNoOp ==
    \A n \in Features :
        LET r1 == create_feature(Self, n)
            r2 == create_feature(r1.s, n)
        IN r1.out = "ok" =>
              r2.out = "ok" /\ r2.calls = <<>> /\ r2.s.git = r1.s.git

\* C2: after create_feature(name) returns normally, from any of absent,
\* localOnly, remoteOnly, both, the feature is in state both: feature/<name> is
\* a local branch and origin/feature/<name> a remote branch.
C2_CreateReachesBoth ==
    \A n \in Features :
        LET r == create_feature(Self, n)
        IN r.out = "ok" => FeatureState(r.s.git, n) = "both"

\* C3: when feature/x is a local branch and origin/feature/x does not exist,
\* create_feature("x") leaves origin/feature/x on the tip of feature/x and
\* performs no start_feature and no fetch.
C3_LocalOnlyIsPublished ==
    \A n \in Features :
        LET r == create_feature(Self, n)
            g == r.s.git
        IN FeatureState(git, n) = "localOnly" =>
              /\ IsRemote(g, n) /\ IsLocal(g, n)
              /\ g.remotes[ofname(n)] = g.heads[fname(n)]
              /\ Cmds(r) \cap {"create", "fetch"} = {}

\* C4: merge_from_remote() is a no-op (no announcement, no stash, no rebase, no
\* stash apply) whenever the active branch already contains every commit of
\* its effective remote ref, the tracking branch when one is set and the
\* branch itself otherwise; with no tracking branch it never stashes or
\* rebases.
EffectiveRemote(g) ==
    IF g.tracking[g.HEAD.ref] = "" THEN g.heads[g.HEAD.ref]
    ELSE g.remotes[g.tracking[g.HEAD.ref]]
C4_MergedIsNoOp ==
    \A replays \in BOOLEAN, applies \in BOOLEAN :
        LET r == merge_from_remote(Self, replays, applies)
        IN Attached(git) =>
              /\ (/\ git.tracking[git.HEAD.ref] \in DOMAIN git.remotes \cup {""}
                  /\ Reach(git, EffectiveRemote(git)) \subseteq Reach(git, git.heads[git.HEAD.ref]))
                 => r.out = "ok" /\ r.calls = <<>> /\ SameClone(r.s.git, git)
              /\ git.tracking[git.HEAD.ref] = "" => Cmds(r) \cap {"stash", "rebase"} = {}
\* reached: a dirty working copy on a branch strictly ahead of its tracking
\* branch, after calls on the instance, where merge_from_remote does nothing
C4_Witness ==
    /\ ncalls > 0
    /\ Attached(git)
    /\ git.tracking[git.HEAD.ref] \in DOMAIN git.remotes
    /\ Reach(git, EffectiveRemote(git)) # Reach(git, git.heads[git.HEAD.ref])
    /\ Reach(git, EffectiveRemote(git)) \subseteq Reach(git, git.heads[git.HEAD.ref])
    /\ git.status # {}
    /\ merge_from_remote(Self, TRUE, TRUE).calls = <<>>

\* C5: with an attached HEAD, push() issues a push of the active branch if and
\* only if some commit of the active branch is reachable from no
\* remote-tracking ref, and the count it announces is the number of such
\* commits.
C5_PushIffAhead ==
    LET r == push(Self)
        n == Cardinality(Ahead(git))
    IN Attached(git) =>
          /\ n > 0 <=> \E i \in 1..Len(r.calls) : r.calls[i] = Call("push", git.HEAD.ref, 0)
          /\ n > 0 => \E i \in 1..Len(r.calls) : r.calls[i] = Call("message", "Pushing", n)
          /\ n = 0 => r.calls = <<>>
\* reached: an attached branch two commits ahead of every remote ref, pushed
C5_Witness ==
    /\ Attached(git)
    /\ Cardinality(Ahead(git)) = 2
    /\ push(Self).calls = <<Call("message", "Pushing", 2), Call("push", git.HEAD.ref, 0)>>

\* C6: after push() returns normally on an attached branch with N > 0 commits
\* that no remote ref reaches, it has announced N commits and the branch is
\* zero commits ahead of the remote refs; a second push() right after is a
\* no-op.
C6_PushLeavesNothingAhead ==
    LET r1 == push(Self)
        r2 == push(r1.s)
        n == Cardinality(Ahead(git))
    IN (Attached(git) /\ n > 0 /\ r1.out = "ok") =>
          /\ \E i \in 1..Len(r1.calls) : r1.calls[i] = Call("message", "Pushing", n)
          /\ Ahead(r1.s.git) = {}
          /\ r2.out = "ok" /\ r2.calls = <<>> /\ r2.s.git = r1.s.git
\* reached: a branch as many commits ahead as the bound on commits allows,
\* whose push the remote accepts
C6_Witness ==
    /\ Attached(git)
    /\ Cardinality(Ahead(git)) = MaxCommits - 1
    /\ push(Self).out = "ok"
    /\ Ahead(push(Self).s.git) = {}

\* C7: create_pull_request called while the working copy has an unstaged
\* change reports an error and aborts without side effects: no push, no POST,
\* and it does not raise.
HasUnstaged(g) == \E e \in g.status : e.xy[1] = " "
C7_UnstagedAbortsPullRequest ==
    \A n \in Features, created \in BOOLEAN :
        LET r == create_pull_request(Self, n, DEVELOP, created)
        IN HasUnstaged(git) =>
              /\ r.out = "ok"
              /\ r.calls = <<Call("error", "uncommited changes", 0)>>
              /\ SameClone(r.s.git, git)

\* C8: in detached-HEAD state branch() and hash() both return the commit HEAD
\* resolves to and neither raises; attached, branch() returns the name of the
\* active branch and hash() the tip commit of that branch.
HeadName(g) == IF Attached(g) THEN g.HEAD.ref ELSE hexsha(g.HEAD.sha)
HeadSha(g) == IF Attached(g) THEN hexsha(g.heads[g.HEAD.ref]) ELSE hexsha(g.HEAD.sha)
C8_BranchAndHashFollowHead ==
    /\ branch(Self).out = "ok" /\ branch(Self).val = HeadName(git)
    /\ hash(Self).out = "ok" /\ hash(Self).val = HeadSha(git)
\* C8 as amended: the first access to branch() and to hash() on an instance
\* returns these values without raising; every later access returns the value
\* of the first.
C8_FirstAccessFollowsHead ==
    /\ branch(Self).out = "ok" /\ hash(Self).out = "ok"
    /\ memo.branch = <<>> => branch(Self).val = HeadName(git)
    /\ memo.hash = <<>> => hash(Self).val = HeadSha(git)
    /\ memo.branch # <<>> => branch(Self).val = memo.branch[1]
    /\ memo.hash # <<>> => hash(Self).val = memo.hash[1]
\* reached: a detached HEAD on an instance that has read neither property
C8_Witness ==
    /\ ncalls > 0
    /\ ~Attached(git)
    /\ memo.branch = <<>> /\ memo.hash = <<>>
    /\ branch(Self).val = hexsha(git.HEAD.sha)

\* C9: every operation that depends on the active branch treats a detached
\* HEAD as nothing to do: merge_from_remote() and push() return without
\* raising and without stash, rebase or push, and remote_branch() returns
\* absent.
C9_DetachedIsNothingToDo ==
    ~Attached(git) =>
        /\ \A replays \in BOOLEAN, applies \in BOOLEAN :
              LET r == merge_from_remote(Self, replays, applies)
              IN r.out = "ok" /\ r.calls = <<>> /\ SameClone(r.s.git, git)
        /\ push(Self).out = "ok" /\ push(Self).calls = <<>>
        /\ SameClone(push(Self).s.git, git)
        /\ remote_branch(Self).out = "ok" /\ remote_branch(Self).val = "None"

\* C13: finish_feature(name) finishes the local feature through git-flow if and
\* only if feature/<name> is a local branch and, independently, deletes the
\* remote branch by pushing an empty ref if and only if origin/feature/<name>
\* still exists at that point; after it returns normally the feature is absent
\* locally and remotely, and no empty-ref push is issued for a remote branch
\* that no longer exists.
Deletes(n) == Call("push", ":" \o fname(n), 0)
C13_FinishRemovesBoth ==
    \A n \in Features, finishes \in BOOLEAN, raises \in BOOLEAN :
        LET r == finish_feature(Self, n, finishes, raises)
            deleted == \E i \in 1..Len(r.calls) : r.calls[i] = Deletes(n)
        IN /\ IsLocal(git, n) <=> "finish" \in Cmds(r)
           /\ deleted => fname(n) \in DOMAIN git.origin
           /\ r.out = "ok" =>
                 /\ IsRemote(git, n) <=> deleted
                 /\ FeatureState(r.s.git, n) = "absent"

\* where merge_from_remote goes on to rebase: attached and not already merged
Rebases(g) ==
    /\ Attached(g)
    /\ RevParse(g, remote_name(g)) # 0
    /\ ~nothing_to_do(g)
\* the positions of a command among the calls of r
At(r, cmd, arg) == {i \in 1..Len(r.calls) : r.calls[i] = Call(cmd, arg, 0)}

\* C14: in merge_from_remote(), when the branch is not already merged, a stash
\* (untracked files included) is taken before the rebase if and only if the
\* working copy has a staged, unstaged or untracked change at that moment; the
\* rebase always follows; a stash reapply is attempted after the rebase if and
\* only if a stash was taken in this call.  A dirty working copy is never
\* rebased without being stashed first.
C14_StashAroundRebase ==
    \A replays \in BOOLEAN, applies \in BOOLEAN :
        LET r == merge_from_remote(Self, replays, applies)
            stashes == At(r, "stash", "-u")
            rebases == At(r, "rebase", remote_name(git))
            reapplies == At(r, "stash", "apply")
        IN Rebases(git) =>
              /\ git.status # {} <=> stashes # {}
              /\ Cardinality(rebases) = 1
              /\ \A i \in stashes, j \in rebases : i < j
              /\ r.out = "ok" => (reapplies # {} <=> stashes # {})
              /\ \A j \in rebases, k \in reapplies : j < k

\* a read of a cached property returns the cached value and changes nothing
Cached(slot, r) ==
    memo[slot] # <<>> => r.out = "ok" /\ r.val = memo[slot][1] /\ r.s = Self
CachedReads ==
    /\ Cached("branch", branch(Self)) /\ Cached("hash", hash(Self))
    /\ Cached("remote_branch", remote_branch(Self))
    /\ Cached("local_branches", local_branches(Self))
    /\ Cached("remote_branches", remote_branches(Self))
    /\ Cached("changes", changes(Self))
\* a step leaves every value already cached as it is
KeepsCached == \A k \in Slots : memo[k] # <<>> => memo'[k] = memo[k]

\* C16: each cached derived property of an instance (branch, hash,
\* remote_branch, the local and remote branch sets, changes) is computed at
\* most once: after its first access every later read on the instance returns
\* the value of the first read, whatever operations (checkout, stash, fetch,
\* merge_from_remote, push, create_feature, finish_feature) ran in between.
C16_CachedValuesStay == []CachedReads /\ [][KeepsCached]_vars
\* reached: branch and changes were read, HEAD has moved and a file was touched
\* since, and a read still returns the first values
C16_Witness ==
    /\ memo.branch # <<>>
    /\ memo.branch[1] # HeadName(git)
    /\ memo.changes # <<>>
    /\ memo.changes[1] # classify(status_z(git))
    /\ branch(Self).val = memo.branch[1]
    /\ changes(Self).val = memo.changes[1]

\* C17: create_pull_request with no unstaged change proceeds whatever is
\* staged or untracked, and performs its steps in the order push() of the
\* current branch, the delay, then exactly one POST with head feature/<name>
\* and the given base; the POST is never issued before push() has returned.
C17_PullRequestOrder ==
    \A n \in Features, base \in {DEVELOP, "master"}, created \in BOOLEAN :
        LET r == create_pull_request(Self, n, base, created)
            p == push(Self)
            posts == {i \in 1..Len(r.calls) : r.calls[i].cmd = "POST"}
            k == Len(p.calls)
        IN ~HasUnstaged(git) =>
              /\ SubSeq(r.calls, 1, k) = p.calls
              /\ p.out # "ok" => r.out = p.out /\ r.calls = p.calls
              /\ p.out = "ok" =>
                    /\ r.out = "ok"
                    /\ Len(r.calls) = k + 4
                    /\ r.calls[k + 1] = Call("sleep", "", 1)
                    /\ r.calls[k + 2] = Call("message", "Posting pull request", 0)
                    /\ r.calls[k + 3] = [Call("POST", fname(n), 0) EXCEPT !.to = base]
                    /\ posts = {k + 3}

\* C19: for any sequence of checkout calls on one instance, after checkout(r)
\* returns normally the active ref of the working copy is r; checkout(b) then
\* checkout(a), starting on a, leaves the working copy on a.
C19_CheckoutReachesRef ==
    \A x \in Refs :
        LET r == checkout(Self, x)
        IN r.out = "ok" => HeadName(r.s.git) = x

\* C20: in merge_from_remote(), if the rebase fails after a stash was taken,
\* the failure propagates, no stash reapply is attempted and the stashed
\* changes remain only in the stash list; the uncommitted changes present
\* before the call are never discarded: when the call ends each is in the
\* working copy or in the stash list.
C20_FailedRebaseKeepsStash ==
    \A replays \in BOOLEAN, applies \in BOOLEAN :
        LET r == merge_from_remote(Self, replays, applies)
            g == r.s.git
            taken == At(r, "stash", "-u") # {} /\ git.status # {}
            failed == Call("rebase", remote_name(git), 0) \in r.failed
        IN /\ (taken /\ failed) =>
                 /\ r.out = "GitCommandError"
                 /\ At(r, "stash", "apply") = {}
                 /\ g.status = {}
                 /\ g.stashes[1] = git.status
           /\ \A e \in git.status :
                 e \in g.status \/ \E i \in 1..Len(g.stashes) : e \in g.stashes[i]
\* reached: a dirty working copy whose branch and remote have diverged, where
\* merge_from_remote stashes and the rebase then stops on a conflict
C20_Witness ==
    LET r == merge_from_remote(Self, FALSE, TRUE)
    IN /\ git.status # {}
       /\ At(r, "stash", "-u") # {}
       /\ Call("rebase", remote_name(git), 0) \in r.failed
       /\ r.s.git.status = {}
       /\ r.s.git.stashes[1] = git.status

\* ------------------------------------------------------------- clone
\* The life of an instance from a path that may hold nothing yet: the path is
\* free, or taken by something that is not a clone, or holds a clone; the
\* instance is asked for a branch of the remote, a commit id or an unknown
\* name.
NoClone(parent, occupied, remote) ==
    [InitGit(FALSE, remote, DEVELOP)
        EXCEPT !.exists = occupied, !.parent = parent, !.cloned = FALSE,
               !.heads = NoBranches, !.tracking = NoBranches, !.remotes = NoBranches,
               !.HEAD = [ref |-> "", sha |-> 0]]

CloneRefs == {DEVELOP, hexsha(1), "nosuch"}

InitClone ==
    /\ \E remote \in BOOLEAN :
          \/ /\ \E parent \in BOOLEAN, occupied \in BOOLEAN :
                   /\ occupied => parent
                   /\ git = NoClone(parent, occupied, remote)
             /\ clone_ref \in CloneRefs
          \/ /\ git = InitGit(FALSE, remote, DEVELOP)
             /\ clone_ref = DEVELOP
    /\ _repo = "None"
    /\ memo = [k \in Slots |-> <<>>]
    /\ ncalls = 0

Clone ==
    \E shallow \in BOOLEAN, reachable \in BOOLEAN :
        Returns(clone(Self, shallow, reachable))
ShallowClone == \E reachable \in BOOLEAN : Returns(shallow_clone(Self, reachable))
Initialize == Returns(Ok(initialize(Self), "None"))

NextClone == Clone \/ ShallowClone \/ Initialize \/ Method \/ UserEdit \/ UpstreamCommit

SpecClone == InitClone /\ [][NextClone]_vars

\* a tool command that failed made the operation raise
Propagates(r) == r.failed # {} => r.out # "ok"
Reapply == Call("stash", "apply", 0)
\* a failed reapply makes merge_from_remote return normally, with what was
\* stashed still first in the stash list; nothing else is absorbed
AbsorbsReapply(r) ==
    /\ Reapply \in r.failed =>
          /\ r.out = "ok"
          /\ Len(r.s.git.stashes) >= Len(git.stashes)
          /\ git.status # {} => r.s.git.stashes # <<>> /\ r.s.git.stashes[1] = git.status
    /\ r.failed \ {Reapply} # {} => r.out # "ok"
\* every operation but clone and merge_from_remote propagates
OthersPropagate ==
    /\ Propagates(branch(Self)) /\ Propagates(hash(Self))
    /\ Propagates(remote_branch(Self)) /\ Propagates(changes(Self))
    /\ Propagates(local_branches(Self)) /\ Propagates(remote_branches(Self))
    /\ Propagates(stash(Self)) /\ Propagates(fetch(Self)) /\ Propagates(push(Self))
    /\ \A x \in Refs : Propagates(checkout(Self, x))
    /\ \A applies \in BOOLEAN : Propagates(apply_stash(Self, applies))
    /\ \A n \in Features :
          /\ Propagates(start_feature(Self, n))
          /\ Propagates(publish_feature(Self, n))
          /\ Propagates(create_feature(Self, n))
          /\ \A created \in BOOLEAN :
                Propagates(create_pull_request(Self, n, DEVELOP, created))
          /\ \A finishes \in BOOLEAN, raises \in BOOLEAN :
                Propagates(finish_feature(Self, n, finishes, raises))
    /\ \A replays \in BOOLEAN, applies \in BOOLEAN :
          AbsorbsReapply(merge_from_remote(Self, replays, applies))

\* C15: the failure of a tool command propagates to the caller from every
\* operation; only the stash reapply after the rebase of merge_from_remote()
\* is absorbed: merge_from_remote() returns normally and the stash entry stays
\* in the stash list.  No other operation (clone, fetch, rebase, push,
\* checkout, publish, finish) catches a tool failure and continues.
C15_OnlyReapplyIsAbsorbed ==
    /\ OthersPropagate
    /\ \A shallow \in BOOLEAN, reachable \in BOOLEAN :
          Propagates(clone(Self, shallow, reachable))
\* C15 as amended: clone() too absorbs one failure, that of its first clone
\* command, and answers it with a full clone and a checkout of the ref, whose
\* failures propagate.
C15_ReapplyAndFirstCloneAreAbsorbed ==
    /\ OthersPropagate
    /\ \A shallow \in BOOLEAN, reachable \in BOOLEAN :
          LET r == clone(Self, shallow, reachable)
              first == Call("clone", clone_ref, IF shallow THEN 1 ELSE 0)
          IN /\ r.failed \ {first} # {} => r.out # "ok"
             /\ (first \in r.failed /\ r.out = "ok") =>
                   r.calls = <<first, Call("clone", "", 0), Call("checkout", clone_ref, 0)>>
\* reached: after calls on the instance, a dirty working copy behind its
\* remote, where merge_from_remote stashes, rebases, fails to reapply and
\* returns normally
C15_Witness ==
    /\ ncalls > 0
    /\ git.status # {}
    /\ LET r == merge_from_remote(Self, TRUE, FALSE)
       IN r.failed = {Reapply} /\ r.out = "ok" /\ r.s.git.stashes[1] = git.status

\* C11: clone(shallow) fails with an already-exists error whenever something is
\* at the local path, and then has no side effect: no parent directory is
\* created, no clone is attempted, the handle is unchanged.
C11_CloneRefusesOccupiedPath ==
    \A shallow \in BOOLEAN, reachable \in BOOLEAN :
        LET r == clone(Self, shallow, reachable)
        IN git.exists => r.out = "Exception" /\ r.calls = <<>> /\ r.s = Self
\* reached: the path holds the clone an earlier clone() of this instance made,
\* and clone() is refused
C11_Witness ==
    /\ ncalls > 0
    /\ git.cloned /\ _repo = "GitFlow" /\ memo.repo = <<>>
    /\ clone(Self, FALSE, TRUE).out = "Exception"

\* C12: a Repository whose working copy is absent is initialized lazily on the
\* first access to derived state: the access clones the working copy if absent
\* and sets up git-flow if absent, so every read of derived state works on an
\* attached, initialized handle, also when clone() is called after an earlier
\* access.
C12_AccessInitializes ==
    (git.cloned \/ ~git.exists) =>
        LET r == repo(Self)
            b == branch(Self)
        IN /\ r.out = "ok" /\ r.val = "GitFlow"
           /\ r.s.git.cloned /\ r.s.git.flow
           /\ b.out = "ok"

\* C18: after a successful non-shallow clone() git-flow is set up on the
\* working copy, and initialize() called again on an initialized repository
\* changes nothing; after a successful shallow clone() the handle is attached
\* and git-flow has not been set up.
C18_CloneInitializes ==
    /\ initialize(initialize(Self)) = initialize(Self)
    /\ \A reachable \in BOOLEAN :
          LET full == clone(Self, FALSE, reachable)
              shallow == shallow_clone(Self, reachable)
          IN /\ full.out = "ok" =>
                   /\ full.s._repo = "GitFlow"
                   /\ full.s.git.cloned /\ full.s.git.flow
                   /\ initialize(full.s) = full.s
             /\ shallow.out = "ok" =>
                   /\ shallow.s._repo = "GitFlow"
                   /\ shallow.s.git.cloned /\ ~shallow.s.git.flow
\* reached: the one call made on the instance was a non-shallow clone of a
\* commit id, and initialize() changes nothing
C18_Witness ==
    /\ ncalls = 1
    /\ clone_ref = hexsha(1)
    /\ git.cloned /\ git.flow /\ _repo = "GitFlow"
    /\ initialize(Self) = Self

\* ------------------------------------------------------------- dirty state
\* Repository.changes as a function of the tool's status entries: a fresh
\* instance on a working copy holding any set of these entries reads changes.
Renamed(path, orig) == [xy |-> <<"R", " ">>, path |-> <<path>>, orig |-> orig]
StatusEntries ==
    {Entry(<<"?", "?">>, "c"),          \* an untracked file
     Entry(<<"A", " ">>, "b"),          \* a staged addition
     Entry(<<" ", "M">>, "a"),          \* an unstaged modification
     Entry(<<"M", "M">>, "d"),          \* staged, then modified again
     Entry(<<"D", " ">>, "e"),          \* a staged deletion
     Renamed("n", <<"o">>),             \* a staged rename of o to n
     Renamed("m", <<"?", "q">>)}        \* a staged rename of ?q to m

InitStatus ==
    /\ \E S \in SUBSET StatusEntries :
          git = [InitGit(FALSE, FALSE, DEVELOP) EXCEPT !.status = S]
    /\ _repo = "None"
    /\ memo = [k \in Slots |-> <<>>]
    /\ clone_ref = DEVELOP
    /\ ncalls = 0

NextStatus == Changes

SpecStatus == InitStatus /\ [][NextStatus]_vars

\* the rule by status code: an untracked marker, a blank first column, any
\* other code
DirtyState(S) ==
    <<\E e \in S : e.xy[1] \notin {"?", " "},
      \E e \in S : e.xy[1] = " ",
      \E e \in S : e.xy[1] = "?">>

\* C10: changes, computed from the short-status entries, is (staged, unstaged,
\* untracked) with each flag set independently by the rule: untracked files
\* alone give (F, F, T), a staged addition alone (T, F, F), an unstaged
\* modification alone (F, T, F), a clean tree (F, F, F).
C10_ChangesFollowStatusCodes ==
    memo.changes # <<>> => memo.changes[1] = DirtyState(git.status)

====
